---- MODULE Spec2Model ----
(***************************************************************************)
(* A model of raw_to_ebook.py: the archive -> image list -> PDF / EPUB     *)
(* pipeline and the interactive session loop that drives it.               *)
(*                                                                         *)
(* Strings are sequences of one-character strings, so that lower(),        *)
(* strip(), endswith(), basename(), splitext() and the code-point order    *)
(* Python sorts by are computed and not assumed.                           *)
(***************************************************************************)
EXTENDS Integers, Sequences, FiniteSets, TLC

VARIABLES
    pc,             \* the line of main() the program is at ("L78": blocked in the
                    \* input() of line 78), "exit" after the loop, "crashed" after
                    \* an exception left main()
    answer,         \* the raw line most recently returned by input()
    console,        \* the line most recently written by print()
    archive_path,   \* main(): archive_path
    output_format,  \* main(): output_format
    output_path,    \* main(): output_path (the assemblers' output_pdf / output_epub)
    title,          \* main(): title
    author,         \* main(): author
    scratch,        \* the scratch directories that exist on disk
    created,        \* how many scratch directories have been created so far
    tree,           \* what os.walk yields for the newest scratch directory, as
                    \* << [root, files], ... >> (kept here after the directory is removed)
    image_paths,    \* main(): image_paths (the assemblers' image_paths)
    fs,             \* the files at output paths: path -> content
    exc             \* the exception that ended the process, or "none"

vars == << pc, answer, console, archive_path, output_format, output_path,
           title, author, scratch, created, tree, image_paths, fs, exc >>

----------------------------------------------------------------------------
(* Characters and str methods *)

\* The characters used, in code-point order (str comparison is by code point).
Alphabet ==
    << "\t", " ", ".", "/",
       "0", "1", "2", "3", "4", "5", "6", "7", "8", "9",
       "A", "B", "C", "D", "E", "F", "G", "H", "I", "J", "K", "L", "M",
       "N", "O", "P", "Q", "R", "S", "T", "U", "V", "W", "X", "Y", "Z",
       "_",
       "a", "b", "c", "d", "e", "f", "g", "h", "i", "j", "k", "l", "m",
       "n", "o", "p", "q", "r", "s", "t", "u", "v", "w", "x", "y", "z" >>

UpperCase == << "A", "B", "C", "D", "E", "F", "G", "H", "I", "J", "K", "L", "M",
                "N", "O", "P", "Q", "R", "S", "T", "U", "V", "W", "X", "Y", "Z" >>

LowerCase == << "a", "b", "c", "d", "e", "f", "g", "h", "i", "j", "k", "l", "m",
                "n", "o", "p", "q", "r", "s", "t", "u", "v", "w", "x", "y", "z" >>

Whitespace == { "\t", " " }

Range(s) == { s[i] : i \in 1..Len(s) }

Ord == [ c \in Range(Alphabet) |-> CHOOSE i \in 1..Len(Alphabet) : Alphabet[i] = c ]

LowerChar == [ c \in Range(Alphabet) |->
                 IF c \in Range(UpperCase)
                 THEN LowerCase[CHOOSE i \in 1..Len(UpperCase) : UpperCase[i] = c]
                 ELSE c ]

\* str.lower()
Lower(s) == [ i \in 1..Len(s) |-> LowerChar[s[i]] ]

\* str.strip()
Strip(s) ==
    LET keep == { i \in 1..Len(s) : s[i] \notin Whitespace }
    IN  IF keep = {} THEN << >>
        ELSE LET lo == CHOOSE i \in keep : \A j \in keep : i <= j
                 hi == CHOOSE i \in keep : \A j \in keep : j <= i
             IN  SubSeq(s, lo, hi)

\* str.endswith(suffix)
EndsWith(s, suffix) ==
    /\ Len(suffix) <= Len(s)
    /\ SubSeq(s, Len(s) - Len(suffix) + 1, Len(s)) = suffix

\* str < str: the first differing code point decides, a proper prefix is smaller
StrLess(a, b) ==
    \E k \in 1..Len(b) :
        /\ k <= Len(a) + 1
        /\ \A j \in 1..(k - 1) : a[j] = b[j]
        /\ \/ k = Len(a) + 1
           \/ Ord[a[k]] < Ord[b[k]]

----------------------------------------------------------------------------
(* os.path *)

\* the index of the last occurrence of character c in s, 0 when there is none
LastIndex(s, c) ==
    LET at == { i \in 1..Len(s) : s[i] = c }
    IN  IF at = {} THEN 0 ELSE CHOOSE i \in at : \A j \in at : j <= i

\* os.path.basename
Basename(p) == SubSeq(p, LastIndex(p, "/") + 1, Len(p))

\* os.path.join(root, file) for a relative file name
Join(root, file) == root \o << "/" >> \o file

\* os.path.splitext(p)[0]: the extension starts at the last dot of the base
\* name, unless only dots precede it there
SplitextRoot(p) ==
    LET sep == LastIndex(p, "/")
        dot == LastIndex(p, ".")
    IN  IF dot > sep /\ \E i \in (sep + 1)..(dot - 1) : p[i] # "."
        THEN SubSeq(p, 1, dot - 1)
        ELSE p

----------------------------------------------------------------------------
(* collect_images *)

IMAGE_EXTENSIONS == << << ".", "j", "p", "g" >>, << ".", "j", "p", "e", "g" >>,
                       << ".", "p", "n", "g" >>, << ".", "w", "e", "b", "p" >> >>

\* line 21: file.lower().endswith(IMAGE_EXTENSIONS)
IsImage(file) ==
    \E k \in 1..Len(IMAGE_EXTENSIONS) : EndsWith(Lower(file), IMAGE_EXTENSIONS[k])

\* the paths line 22 appends for one directory of the walk, in listing order
RECURSIVE ImagesOfDir(_, _)
ImagesOfDir(root, files) ==
    IF files = << >> THEN << >>
    ELSE LET rest == ImagesOfDir(root, Tail(files))
         IN  IF IsImage(Head(files).name)
             THEN << Join(root, Head(files).name) >> \o rest
             ELSE rest

\* lines 18-22: the list built by the walk, before it is sorted
RECURSIVE WalkImages(_)
WalkImages(walk) ==
    IF walk = << >> THEN << >>
    ELSE ImagesOfDir(Head(walk).root, Head(walk).files) \o WalkImages(Tail(walk))

\* A variant that sorts by the whole path.
SortKeyFullPath(path) == Lower(path)

\* A variant that does not lower-case the key.
SortKeyCaseSensitive(path) == Basename(path)

\* line 23: key=lambda x: os.path.basename(x).lower()
SortKey(path) == Lower(Basename(path))

\* sorted() is stable: an element goes after every element whose key is not larger
RECURSIVE InsertByKey(_, _)
InsertByKey(sorted, x) ==
    IF sorted = << >> THEN << x >>
    ELSE IF StrLess(SortKey(x), SortKey(Head(sorted)))
         THEN << x >> \o sorted
         ELSE << Head(sorted) >> \o InsertByKey(Tail(sorted), x)

RECURSIVE SortedByKey(_, _)
SortedByKey(done, todo) ==
    IF todo = << >> THEN done
    ELSE SortedByKey(InsertByKey(done, Head(todo)), Tail(todo))

collect_images(walk) == SortedByKey(<< >>, WalkImages(walk))

----------------------------------------------------------------------------
(* The contents of an extracted archive, as os.walk reports them *)

MaxFiles == 3

FileNames ==
    { << "p", "a", "g", "e", "1", ".", "p", "n", "g" >>,
      << "p", "a", "g", "e", "2", ".", "p", "n", "g" >>,
      << "P", "A", "G", "E", "1", "0", ".", "p", "n", "g" >>,
      << "B", ".", "J", "P", "E", "G" >>,
      << "n", "o", "t", "e", "s", ".", "t", "x", "t" >> }

\* what Image.open makes of a file: its mode, or that it cannot be decoded
FileData == { "RGB", "P", "corrupt" }

\* tempfile.TemporaryDirectory(): a fresh directory, a new name each time
TempDirName(n) == << "/", "t", "m", "p", "/", "d", Alphabet[5 + n] >>

\* The directories os.walk visits, top-down: a directory before what is in it,
\* sibling directories in the order the listing returns them.
Walks(base) ==
    { << base >>,
      << base, Join(base, << "a" >>) >>,
      << base, Join(base, << "a" >>), Join(Join(base, << "a" >>), << "b" >>) >>,
      << base, Join(base, << "z" >>), Join(base, << "a" >>) >> }

\* n files in listing order, each with the index of its directory in the walk:
\* the walk finishes a directory before the next, and a directory holds a
\* name once.
Placements(n, dirs, names, datas) ==
    { f \in [ 1..n -> (names \X datas) \X (1..dirs) ] :
        /\ \A i \in 1..(n - 1) : f[i][2] <= f[i + 1][2]
        /\ \A i, j \in 1..n :
              (i # j /\ f[i][2] = f[j][2]) => f[i][1][1] # f[j][1][1] }

FilesIn(f, d) ==
    LET at == { k \in 1..Len(f) : f[k][2] = d }
    IN  IF at = {} THEN << >>
        ELSE LET lo == CHOOSE k \in at : \A j \in at : k <= j
             IN  [ k \in 1..Cardinality(at) |->
                     [ name |-> f[lo + k - 1][1][1], data |-> f[lo + k - 1][1][2] ] ]

Trees(walks, maxFiles, names, datas) ==
    UNION { { [ d \in 1..Len(w) |-> [ root |-> w[d], files |-> FilesIn(f, d) ] ] :
                f \in UNION { Placements(n, Len(w), names, datas) : n \in 0..maxFiles } } :
            w \in walks }

\* every file of the tree: its path and what it holds
TreeFiles(walk) ==
    UNION { { [ path |-> Join(walk[d].root, walk[d].files[k].name),
                data |-> walk[d].files[k].data ] : k \in 1..Len(walk[d].files) } :
            d \in 1..Len(walk) }

\* what the file at a path holds
DataOf(walk, path) == (CHOOSE f \in TreeFiles(walk) : f.path = path).data

----------------------------------------------------------------------------
(* Literals *)

PDF == << "p", "d", "f" >>
EPUB == << "e", "p", "u", "b" >>
DOT_PDF == << ".", "p", "d", "f" >>
DOT_EPUB == << ".", "e", "p", "u", "b" >>
DOT_7Z == << ".", "7", "z" >>
YES == << "y", "e", "s" >>
Y == << "y" >>
UNKNOWN == << "U", "n", "k", "n", "o", "w", "n" >>

\* a line written by print(): its fixed text and the value formatted into it
Line(text, arg) == << text, arg >>

MSG_NO_IMAGES == Line("No images found.", << >>)
MSG_NO_ARCHIVE == Line("Archive file does not exist.", << >>)
MSG_INVALID_FORMAT == Line("Invalid format.", << >>)
MSG_EXTRACTING == Line("Extracting archive...", << >>)
MSG_COLLECTING == Line("Collecting images...", << >>)
MSG_GOODBYE == Line("Goodbye!", << >>)
MSG_PDF_CREATED(out) == Line("PDF created: ", out)
MSG_EPUB_CREATED(out) == Line("EPUB created: ", out)

\* a file a failed write left behind at an output path
PARTIAL == [ kind |-> "partial" ]

\* a file that was at an output path before the program ran
OLD == [ kind |-> "old" ]

NoFiles == [ p \in {} |-> OLD ]

\* the output files with the file at path replaced (created when absent)
WriteFile(files, path, content) ==
    [ p \in (DOMAIN files) \cup { path } |-> IF p = path THEN content ELSE files[p] ]

\* How a call ends: the output files after it, the lines it printed, the
\* exception it raised ("none" when it returned).
Outcome(files, printed, raised) == [ fs |-> files, printed |-> printed, exc |-> raised ]

----------------------------------------------------------------------------
(* images_to_pdf *)

\* lines 32-35: the page made of one file; 'RGB' passes, any other mode is converted
Page(walk, path) == [ src |-> path, mode |-> "RGB", was |-> DataOf(walk, path) ]

\* lines 30-35: the pages of the first n paths
Pages(walk, paths, n) == [ i \in 1..n |-> Page(walk, paths[i]) ]

\* the positions whose file cannot be decoded
Undecodable(walk, paths) ==
    { i \in 1..Len(paths) : DataOf(walk, paths[i]) = "corrupt" }

\* line 37: the file is written, or the write fails before or after the file
\* was opened for writing, or the user interrupts it half-way
SavePdf(pages, out, files) ==
    { Outcome(WriteFile(files, out, [ kind |-> "pdf", pages |-> pages ]),
              << MSG_PDF_CREATED(out) >>, "none"),
      Outcome(files, << >>, "OSError"),
      Outcome(WriteFile(files, out, PARTIAL), << >>, "OSError"),
      Outcome(WriteFile(files, out, PARTIAL), << >>, "KeyboardInterrupt") }

\* A variant of lines 30-37 that saves the pages decoded so far before it
\* decodes the next file.
DecodeAndSaveIncrementally(walk, paths, out, files) ==
    IF Undecodable(walk, paths) = {}
    THEN SavePdf(Pages(walk, paths, Len(paths)), out, files)
    ELSE LET bad == CHOOSE i \in Undecodable(walk, paths) :
                        \A j \in Undecodable(walk, paths) : i <= j
         IN  { Outcome(IF bad = 1 THEN files
                       ELSE WriteFile(files, out,
                                [ kind |-> "pdf", pages |-> Pages(walk, paths, bad - 1) ]),
                       << >>, "UnidentifiedImageError") }

\* lines 30-38: the loop raises at the first file that cannot be decoded; the
\* output is written after the loop
DecodeAndSave(walk, paths, out, files) ==
    IF Undecodable(walk, paths) = {}
    THEN SavePdf(Pages(walk, paths, Len(paths)), out, files)
    ELSE { Outcome(files, << >>, "UnidentifiedImageError") }

\* A variant that opens the output file before it looks at the list.
images_to_pdf_open_first(walk, paths, out, files) ==
    IF paths = << >>
    THEN { Outcome(WriteFile(files, out, PARTIAL), << MSG_NO_IMAGES >>, "none") }
    ELSE DecodeAndSave(walk, paths, out, files)

\* images_to_pdf(image_paths, output_pdf): every way the call can end
images_to_pdf(walk, paths, out, files) ==
    IF paths = << >>
    THEN { Outcome(files, << MSG_NO_IMAGES >>, "none") }
    ELSE DecodeAndSave(walk, paths, out, files)

----------------------------------------------------------------------------
(* images_to_epub *)

\* A variant that gives every image resource the same id.
ImgIdConstant(i) == << "image_", 0 >>

\* line 57: f'image_{i}'
ImgId(i) == << "image_", i >>

\* line 58: f'images/{img_id}.jpg'
ImgFileName(img_id) == << "images/" >> \o img_id \o << ".jpg" >>

\* lines 55-59: the image resource of the i-th path (i counts from 0); the
\* file is read as bytes and never decoded
ImgItem(walk, paths, i) ==
    [ kind |-> "image", uid |-> ImgId(i), file_name |-> ImgFileName(ImgId(i)),
      media_type |-> "image/jpeg",
      content |-> [ src |-> paths[i + 1], data |-> DataOf(walk, paths[i + 1]) ] ]

\* lines 62-63: the page document of the i-th path (i counts from 0)
HtmlItem(i) ==
    [ kind |-> "html", title |-> << "Page ", i + 1 >>,
      file_name |-> << "page_", i + 1, ".xhtml" >>, lang |-> "en",
      img_src |-> ImgFileName(ImgId(i)) ]

\* lines 54-66: book.add_item(img_item); book.add_item(html) for each path
RECURSIVE LoopItems(_, _, _)
LoopItems(walk, paths, i) ==
    IF i = Len(paths) THEN << >>
    ELSE << ImgItem(walk, paths, i), HtmlItem(i) >> \o LoopItems(walk, paths, i + 1)

\* lines 45-71: the book handed to write_epub
Book(walk, paths, t, a) ==
    LET htmls == [ i \in 1..Len(paths) |-> HtmlItem(i - 1) ]
    IN  [ identifier |-> "imgbook", title |-> t, language |-> "en",
          authors |-> << a >>,
          toc |-> htmls,
          spine |-> << [ ref |-> "nav" ] >> \o htmls,
          items |-> LoopItems(walk, paths, 0)
                      \o << [ kind |-> "ncx" ], [ kind |-> "nav" ] >> ]

\* line 73: the file is written, or the write fails before or after the file
\* was opened for writing, or the user interrupts it half-way
WriteEpub(book, out, files) ==
    { Outcome(WriteFile(files, out, [ kind |-> "epub", book |-> book ]),
              << MSG_EPUB_CREATED(out) >>, "none"),
      Outcome(files, << >>, "OSError"),
      Outcome(WriteFile(files, out, PARTIAL), << >>, "OSError"),
      Outcome(WriteFile(files, out, PARTIAL), << >>, "KeyboardInterrupt") }

\* A variant without the guard of lines 41-43.
images_to_epub_unguarded(walk, paths, out, t, a, files) ==
    WriteEpub(Book(walk, paths, t, a), out, files)

\* images_to_epub(image_paths, output_epub, title, author): every way the call
\* can end
images_to_epub(walk, paths, out, t, a, files) ==
    IF paths = << >>
    THEN { Outcome(files, << MSG_NO_IMAGES >>, "none") }
    ELSE WriteEpub(Book(walk, paths, t, a), out, files)

----------------------------------------------------------------------------
(* main: the session loop *)

MaxConversions == 1

\* the regular files on disk that the user may name
ArchiveFiles == { << "b", "o", "o", "k", ".", "z", "i", "p" >>, << "c", "/", "v", "o", "l", ".", "1", ".", "7", "z" >> }

\* the lines the user may type at each prompt
ArchiveAnswers == { << " ", "b", "o", "o", "k", ".", "z", "i", "p" >>, << "c", "/", "v", "o", "l", ".", "1", ".", "7", "z" >>, << "n", "o", "p", "e", ".", "r", "a", "r" >> }
FormatAnswers == { << " ", "P", "D", "F", " " >>, << "E", "p", "u", "b" >>, << "x", "y", "z" >>, << >> }
OutputAnswers == { << >>, << " ", "m", "y", ".", "b", "o", "o", "k", " " >> }
TitleAnswers == { << >>, << " ", "T", " " >> }
AuthorAnswers == { << >>, << "A", "l" >> }
AnotherAnswers == { << "y", "e", "s" >>, << " ", "Y" >>, << "n", "o" >>, << >> }

\* what the archives of a session may hold: nothing, no image, one image, an
\* image that cannot be decoded, and an image below a file that is none
SessionTrees(base) ==
    { << [ root |-> base, files |-> << >> ] >>,
      << [ root |-> base, files |-> << [ name |-> << "n", "o", "t", "e", "s", ".", "t", "x", "t" >>, data |-> "RGB" ] >> ] >>,
      << [ root |-> base, files |-> << [ name |-> << "p", "a", "g", "e", "1", ".", "p", "n", "g" >>, data |-> "RGB" ] >> ] >>,
      << [ root |-> base, files |-> << [ name |-> << "p", "a", "g", "e", "1", ".", "p", "n", "g" >>, data |-> "corrupt" ] >> ] >>,
      << [ root |-> base, files |-> << [ name |-> << "p", "a", "g", "e", "2", ".", "p", "n", "g" >>, data |-> "RGB" ] >> ],
         [ root |-> Join(base, << "a" >>),
           files |-> << [ name |-> << "n", "o", "t", "e", "s", ".", "t", "x", "t" >>, data |-> "RGB" ],
                        [ name |-> << "P", "A", "G", "E", "1", ".", "P", "N", "G" >>, data |-> "P" ] >> ] >> }

\* line 79: os.path.isfile(archive_path)
IsFile(path) == path \in ArchiveFiles

\* A variant that accepts every answer.
IsValidFormatAlways(fmt) == TRUE

\* line 84: output_format in ('pdf', 'epub')
IsValidFormat(fmt) == fmt \in { PDF, EPUB }

\* line 88: the default output name
DefaultOutput(archive, fmt) ==
    SplitextRoot(Basename(archive)) \o (IF fmt = PDF THEN DOT_PDF ELSE DOT_EPUB)

\* line 102: the default title
DefaultTitle(out) == SplitextRoot(Basename(out))

\* A variant that compares the raw answer.
IsAffirmativeRaw(ans) == ans \in { YES, Y }

\* lines 107-108: another in ('yes', 'y')
IsAffirmative(ans) == Lower(Strip(ans)) \in { YES, Y }

\* lines 10-15: extract_archive either fills the directory or raises; the
\* extractor is chosen by the suffix of the path
ExtractOutcomes(archive, base) ==
    { [ tree |-> t, exc |-> "none" ] :
        t \in SessionTrees(base) }
    \cup { [ tree |-> << [ root |-> base, files |-> << >> ] >>,
             exc |-> IF EndsWith(archive, DOT_7Z) THEN "py7zr.Bad7zFile"
                     ELSE "patoolib.PatoolError" ] }

\* A variant that removes the directory only when the block ends normally.
TempDirExitNoFinally(dirs, d, raised) == IF raised THEN dirs ELSE dirs \ { d }

\* line 93: leaving the with block removes the directory, whether the block
\* ended normally or raised
TempDirExit(dirs, d, raised) == dirs \ { d }

\* the lines of main() inside the with block of line 93
InWith == { "L95", "L97", "L100", "L103", "L104", "L105", "with_exit" }

\* the lines of main() that are blocked in input()
Prompts == { "L78", "L83", "L89", "L103", "L104", "L107" }

Lines == { "L78", "L83", "L89", "L93", "L107" } \cup InWith

\* the console after a call printed its lines
After(printed) == IF printed = << >> THEN console ELSE printed[Len(printed)]

\* An exception leaves main(): the with block, when main() is inside it, is
\* left first, and the process ends.
Raise(e) ==
    /\ pc' = "crashed"
    /\ exc' = e
    /\ scratch' = IF pc \in InWith THEN TempDirExit(scratch, created, TRUE) ELSE scratch
    /\ UNCHANGED tree

Init ==
    /\ pc = "L78"
    /\ answer = << >>
    /\ console = Line("", << >>)
    /\ archive_path = << >>
    /\ output_format = << >>
    /\ output_path = << >>
    /\ title = << >>
    /\ author = << >>
    /\ scratch = {}
    /\ created = 0
    /\ tree = << >>
    /\ image_paths = << >>
    /\ fs \in { NoFiles, [ p \in { << "b", "o", "o", "k", ".", "p", "d", "f" >> } |-> OLD ] }
    /\ exc = "none"

\* lines 78-81
ReadArchivePath(ans) ==
    /\ pc = "L78"
    /\ answer' = ans
    /\ archive_path' = Strip(ans)
    /\ IF IsFile(archive_path')
       THEN pc' = "L83" /\ console' = console
       ELSE pc' = "L78" /\ console' = MSG_NO_ARCHIVE
    /\ UNCHANGED << output_format, output_path, title, author, scratch, created,
                    tree, image_paths, fs, exc >>

\* lines 83-86
ReadFormat(ans) ==
    /\ pc = "L83"
    /\ answer' = ans
    /\ output_format' = Lower(Strip(ans))
    /\ IF IsValidFormat(output_format')
       THEN pc' = "L89" /\ console' = console
       ELSE pc' = "L78" /\ console' = MSG_INVALID_FORMAT
    /\ UNCHANGED << archive_path, output_path, title, author, scratch, created,
                    tree, image_paths, fs, exc >>

\* lines 88-91
ReadOutputName(ans) ==
    /\ pc = "L89"
    /\ answer' = ans
    /\ output_path' = IF Strip(ans) = << >>
                      THEN DefaultOutput(archive_path, output_format)
                      ELSE Strip(ans)
    /\ pc' = "L93"
    /\ UNCHANGED << console, archive_path, output_format, title, author, scratch,
                    created, tree, image_paths, fs, exc >>

\* lines 93-94
EnterTempDir ==
    /\ pc = "L93"
    /\ created < MaxConversions
    /\ created' = created + 1
    /\ scratch' = scratch \cup { created' }
    /\ tree' = << [ root |-> TempDirName(created'), files |-> << >> ] >>
    /\ console' = MSG_EXTRACTING
    /\ pc' = "L95"
    /\ UNCHANGED << answer, archive_path, output_format, output_path, title,
                    author, image_paths, fs, exc >>

\* lines 95-96
ExtractArchive ==
    /\ pc = "L95"
    /\ \E o \in ExtractOutcomes(archive_path, TempDirName(created)) :
          IF o.exc = "none"
          THEN /\ tree' = o.tree
               /\ console' = MSG_COLLECTING
               /\ pc' = "L97"
               /\ UNCHANGED << scratch, exc >>
          ELSE /\ Raise(o.exc)
               /\ UNCHANGED console
    /\ UNCHANGED << answer, archive_path, output_format, output_path, title,
                    author, created, image_paths, fs >>

\* lines 97-99
CollectImages ==
    /\ pc = "L97"
    /\ image_paths' = collect_images(tree)
    /\ pc' = IF output_format = PDF THEN "L100" ELSE "L103"
    /\ UNCHANGED << answer, console, archive_path, output_format, output_path,
                    title, author, scratch, created, tree, fs, exc >>

\* line 100
ImagesToPdf ==
    /\ pc = "L100"
    /\ \E o \in images_to_pdf(tree, image_paths, output_path, fs) :
          /\ fs' = o.fs
          /\ console' = After(o.printed)
          /\ IF o.exc = "none"
             THEN pc' = "with_exit" /\ UNCHANGED << scratch, tree, exc >>
             ELSE Raise(o.exc)
    /\ UNCHANGED << answer, archive_path, output_format, output_path, title,
                    author, created, image_paths >>

\* lines 102-103
ReadTitle(ans) ==
    /\ pc = "L103"
    /\ answer' = ans
    /\ title' = IF Strip(ans) # << >> THEN Strip(ans) ELSE DefaultTitle(output_path)
    /\ pc' = "L104"
    /\ UNCHANGED << console, archive_path, output_format, output_path, author,
                    scratch, created, tree, image_paths, fs, exc >>

\* line 104
ReadAuthor(ans) ==
    /\ pc = "L104"
    /\ answer' = ans
    /\ author' = IF Strip(ans) # << >> THEN Strip(ans) ELSE UNKNOWN
    /\ pc' = "L105"
    /\ UNCHANGED << console, archive_path, output_format, output_path, title,
                    scratch, created, tree, image_paths, fs, exc >>

\* line 105
ImagesToEpub ==
    /\ pc = "L105"
    /\ \E o \in images_to_epub(tree, image_paths, output_path, title, author, fs) :
          /\ fs' = o.fs
          /\ console' = After(o.printed)
          /\ IF o.exc = "none"
             THEN pc' = "with_exit" /\ UNCHANGED << scratch, tree, exc >>
             ELSE Raise(o.exc)
    /\ UNCHANGED << answer, archive_path, output_format, output_path, title,
                    author, created, image_paths >>

\* the end of the with block of line 93, reached without an exception
ExitTempDir ==
    /\ pc = "with_exit"
    /\ scratch' = TempDirExit(scratch, created, FALSE)
    /\ pc' = "L107"
    /\ UNCHANGED << answer, console, archive_path, output_format, output_path,
                    title, author, created, tree, image_paths, fs, exc >>

\* lines 107-110
ReadAnother(ans) ==
    /\ pc = "L107"
    /\ answer' = ans
    /\ IF IsAffirmative(ans)
       THEN pc' = "L78" /\ console' = console
       ELSE pc' = "exit" /\ console' = MSG_GOODBYE
    /\ UNCHANGED << archive_path, output_format, output_path, title, author,
                    scratch, created, tree, image_paths, fs, exc >>

\* The user interrupts the program at a prompt or before a call wrote anything
\* (KeyboardInterrupt), or the input ends at a prompt (EOFError): nothing in
\* main() catches either.
Interrupt ==
    /\ pc \in Lines
    /\ \E e \in { "KeyboardInterrupt" } \cup (IF pc \in Prompts THEN { "EOFError" } ELSE {}) :
          Raise(e)
    /\ UNCHANGED << answer, console, archive_path, output_format, output_path,
                    title, author, created, image_paths, fs >>

Next ==
    \/ \E ans \in ArchiveAnswers : ReadArchivePath(ans)
    \/ \E ans \in FormatAnswers : ReadFormat(ans)
    \/ \E ans \in OutputAnswers : ReadOutputName(ans)
    \/ EnterTempDir
    \/ ExtractArchive
    \/ CollectImages
    \/ ImagesToPdf
    \/ \E ans \in TitleAnswers : ReadTitle(ans)
    \/ \E ans \in AuthorAnswers : ReadAuthor(ans)
    \/ ImagesToEpub
    \/ ExitTempDir
    \/ \E ans \in AnotherAnswers : ReadAnother(ans)
    \/ Interrupt

Spec == Init /\ [][Next]_vars

----------------------------------------------------------------------------
(* collect_images on its own: main() at line 97, over every extracted tree *)

InitCollect ==
    /\ pc = "L97"
    /\ answer = << >>
    /\ console = MSG_COLLECTING
    /\ archive_path = << "b", "o", "o", "k", ".", "z", "i", "p" >>
    /\ output_format \in { PDF, EPUB }
    /\ output_path = DefaultOutput(archive_path, output_format)
    /\ title = << >>
    /\ author = << >>
    /\ scratch = { 1 }
    /\ created = 1
    /\ tree \in Trees(Walks(TempDirName(1)), MaxFiles, FileNames, { "RGB" })
    /\ image_paths = << >>
    /\ fs = NoFiles
    /\ exc = "none"

NextCollect == CollectImages

SpecCollect == InitCollect /\ [][NextCollect]_vars

----------------------------------------------------------------------------
(* The assemblers on their own: main() at line 100 or 105, over every list  *)
(* of paths into a directory of three files                                *)

MaxImages == 2

AssembleTrees(base) ==
    { << [ root |-> base,
           files |-> << [ name |-> << "p", "a", "g", "e", "1", ".", "p", "n", "g" >>, data |-> d1 ],
                        [ name |-> << "p", "a", "g", "e", "2", ".", "p", "n", "g" >>, data |-> d2 ],
                        [ name |-> << "B", ".", "J", "P", "E", "G" >>, data |-> d3 ] >> ] >> :
        d1 \in FileData, d2 \in FileData, d3 \in FileData }

PathLists(walk, maxLen) ==
    UNION { [ 1..n -> { f.path : f \in TreeFiles(walk) } ] : n \in 0..maxLen }

InitAssemble ==
    /\ pc \in { "L100", "L105" }
    /\ answer = << >>
    /\ console = MSG_COLLECTING
    /\ archive_path = << "b", "o", "o", "k", ".", "z", "i", "p" >>
    /\ output_format = IF pc = "L100" THEN PDF ELSE EPUB
    /\ output_path = DefaultOutput(archive_path, output_format)
    /\ title \in IF pc = "L100" THEN { << >> }
                 ELSE { DefaultTitle(output_path), << "T" >> }
    /\ author \in IF pc = "L100" THEN { << >> } ELSE { UNKNOWN, << "A", "l" >> }
    /\ scratch = { 1 }
    /\ created = 1
    /\ tree \in AssembleTrees(TempDirName(1))
    /\ image_paths \in PathLists(tree, MaxImages)
    /\ fs \in { NoFiles, [ p \in { output_path } |-> OLD ] }
    /\ exc = "none"

NextAssemble ==
    \/ ImagesToPdf
    \/ ImagesToEpub

SpecAssemble == InitAssemble /\ [][NextAssemble]_vars

----------------------------------------------------------------------------
(* Properties of collect_images, under SpecCollect *)

Collected == pc \in { "L100", "L103" }

\* the files of the tree whose lower-cased name ends in one of the four extensions
RecognizedPaths ==
    UNION { { Join(tree[d].root, tree[d].files[k].name) :
                k \in { j \in 1..Len(tree[d].files) :
                          \E e \in { << ".", "j", "p", "g" >>, << ".", "j", "p", "e", "g" >>, << ".", "p", "n", "g" >>, << ".", "w", "e", "b", "p" >> } :
                              LET low == Lower(tree[d].files[j].name)
                              IN  /\ Len(low) >= Len(e)
                                  /\ \A c \in 1..Len(e) :
                                        low[Len(low) - Len(e) + c] = e[c] } } :
            d \in 1..Len(tree) }

BaseNames(paths) == [ i \in 1..Len(paths) |-> Basename(paths[i]) ]

AllNames == UNION { { tree[d].files[k].name : k \in 1..Len(tree[d].files) } : d \in 1..Len(tree) }

FileCount == Cardinality(TreeFiles(tree))

\* C1: collect_images returns exactly the files with a recognized extension
\* (compared on the lower-cased name), each once, in non-decreasing order of
\* the lower-cased base name, whatever directory each file is in.
C1_ExactlyRecognizedSortedByBasename ==
    Collected =>
        /\ Range(image_paths) = RecognizedPaths
        /\ Len(image_paths) = Cardinality(RecognizedPaths)
        /\ \A i, j \in 1..Len(image_paths) :
              i < j => ~StrLess(Lower(Basename(image_paths[j])),
                                Lower(Basename(image_paths[i])))

\* A tree with a file that is no image, an upper-case name among the images,
\* and two images of different directories that the order of their full paths
\* would put the other way round.
C1_Witness ==
    /\ Collected
    /\ FileCount > Len(image_paths)
    /\ \E i, j \in 1..Len(image_paths) :
          /\ i < j
          /\ StrLess(image_paths[j], image_paths[i])
          /\ Len(image_paths[i]) - Len(Basename(image_paths[i]))
               # Len(image_paths[j]) - Len(Basename(image_paths[j]))
          /\ Lower(Basename(image_paths[i])) # Basename(image_paths[i])

ScenarioNames == { << "p", "a", "g", "e", "2", ".", "p", "n", "g" >>, << "p", "a", "g", "e", "1", ".", "p", "n", "g" >>, << "P", "A", "G", "E", "1", "0", ".", "p", "n", "g" >> }

IsScenario == Collected /\ FileCount = 3 /\ AllNames = ScenarioNames

\* C2 as stated: page2.png, page1.png and PAGE10.png come out as page1.png,
\* page2.png, PAGE10.png.
C2_NaturalOrder ==
    IsScenario => BaseNames(image_paths) = << << "p", "a", "g", "e", "1", ".", "p", "n", "g" >>, << "p", "a", "g", "e", "2", ".", "p", "n", "g" >>, << "P", "A", "G", "E", "1", "0", ".", "p", "n", "g" >> >>

\* C2 amended: page2.png, page1.png and PAGE10.png come out as page1.png,
\* PAGE10.png, page2.png: the keys are compared character by character, and
\* "page10.png" is smaller than "page2.png".
C2_CodePointOrder ==
    IsScenario => BaseNames(image_paths) = << << "p", "a", "g", "e", "1", ".", "p", "n", "g" >>, << "P", "A", "G", "E", "1", "0", ".", "p", "n", "g" >>, << "p", "a", "g", "e", "2", ".", "p", "n", "g" >> >>

C2_Witness == IsScenario /\ Len(image_paths) = 3 /\ Len(tree) = 1

----------------------------------------------------------------------------
(* Properties of the session loop, under Spec *)

\* C3: no scratch directory exists at the prompts outside the with block, at
\* the start of an iteration or after the process ended, on whatever path the
\* block was left; never is there more than one.
C3_ScratchRemovedOnEveryPath ==
    /\ Cardinality(scratch) <= 1
    /\ pc \in { "L78", "L83", "L89", "L93", "L107", "exit", "crashed" } => scratch = {}

\* An assembly failure inside the block, after which the directory is gone.
C3_Witness ==
    /\ pc = "crashed"
    /\ exc = "UnidentifiedImageError"
    /\ created >= 1
    /\ scratch = {}

\* C4 as stated: once the collected list is empty, neither the title or author
\* prompt nor an assembler is reached.
C4_NoPromptNoAssembly ==
    ~(pc \in { "L100", "L103", "L104", "L105" } /\ image_paths = << >>)

\* C4 amended: with an empty list the pdf assembler is still called and, for
\* epub, title and author are still asked and the epub assembler is called;
\* the assembler prints "No images found." and returns, no output file is
\* created or changed on the way, and unless the user interrupts the session
\* reaches the "convert another book?" prompt.
C4_EmptyReportedNothingWritten ==
    [][ /\ (pc = "L97" /\ image_paths' = << >> /\ exc' = "none")
            => pc' = (IF output_format = PDF THEN "L100" ELSE "L103")
        /\ (pc = "L103" /\ image_paths = << >> /\ exc' = "none")
            => (pc' = "L104" /\ fs' = fs)
        /\ (pc = "L104" /\ image_paths = << >> /\ exc' = "none")
            => (pc' = "L105" /\ fs' = fs)
        /\ (pc \in { "L100", "L105" } /\ image_paths = << >>)
            => (pc' = "with_exit" /\ fs' = fs /\ console' = MSG_NO_IMAGES
                /\ exc' = "none")
            \/ (pc' = "crashed" /\ fs' = fs /\ exc' = "KeyboardInterrupt")
        /\ (pc = "with_exit" /\ exc' = "none")
            => (pc' = "L107" /\ fs' = fs /\ console' = console) ]_vars

C4_Witness ==
    /\ pc = "L107"
    /\ output_format = EPUB
    /\ image_paths = << >>
    /\ console = MSG_NO_IMAGES
    /\ created = 1
    /\ TreeFiles(tree) # {}

\* the step reads an answer at the format prompt that is neither pdf nor epub
InvalidFormatStep ==
    /\ pc = "L83"
    /\ exc' = "none"
    /\ Lower(Strip(answer')) \notin { PDF, EPUB }

\* C5 as stated: after an invalid format the next prompt is the format prompt
\* again, with the archive path kept.
C5_FormatPromptAgain ==
    [][ InvalidFormatStep => (pc' = "L83" /\ archive_path' = archive_path) ]_vars

\* C5 amended: after an invalid format "Invalid format." is printed and the
\* next prompt is the archive-path prompt, so the archive path is asked
\* again; the format is not replaced by a valid one, nothing is extracted or
\* assembled, and the process does not end.
C5_RestartsAtArchivePrompt ==
    [][ InvalidFormatStep =>
          /\ pc' = "L78"
          /\ console' = MSG_INVALID_FORMAT
          /\ output_format' \notin { PDF, EPUB }
          /\ UNCHANGED << scratch, created, tree, image_paths, fs >> ]_vars

C5_Witness ==
    /\ pc = "L78"
    /\ console = MSG_INVALID_FORMAT
    /\ archive_path \in ArchiveFiles
    /\ answer = << "x", "y", "z" >>

\* C6: a failure of extraction or of assembly does not end the process.
C6_FailureDoesNotEndProcess ==
    ~(/\ pc = "crashed"
      /\ exc \in { "py7zr.Bad7zFile", "patoolib.PatoolError",
                   "UnidentifiedImageError", "OSError" })

\* C9: the loop ends only by a step from the "convert another book?" prompt
\* whose answer, trimmed and lower-cased, is neither "yes" nor "y", and that
\* step prints "Goodbye!"; an answer that is "yes" or "y" leads to the
\* archive-path prompt; an answer at any other prompt leads to a line of the
\* loop.
C9_ExitOnlyWhenDeclined ==
    [][ /\ (pc' = "exit" /\ pc # "exit")
            => /\ pc = "L107"
               /\ Lower(Strip(answer')) \notin { YES, Y }
               /\ console' = MSG_GOODBYE
        /\ (pc = "L107" /\ exc' = "none")
            => IF Lower(Strip(answer')) \in { YES, Y }
               THEN pc' = "L78"
               ELSE pc' = "exit" /\ console' = MSG_GOODBYE
        /\ (pc \in Prompts \ { "L107" } /\ exc' = "none") => pc' \in Lines ]_vars

C9_Witness ==
    /\ pc = "exit"
    /\ console = MSG_GOODBYE
    /\ created = 1
    /\ answer = << "n", "o" >>

----------------------------------------------------------------------------
(* Properties of the assemblers, under SpecAssemble *)

\* the page documents of a spine: its entries that are documents of the book
SpinePages(book) == SelectSeq(book.spine, LAMBDA x : "kind" \in DOMAIN x)

\* C7: for N >= 1 paths the written book's spine holds N page documents, the
\* i-th referencing an image resource that holds the bytes of the i-th path
\* and that no other page references; the table of contents is these N pages
\* in this order; title, author and language are the arguments and 'en'.
C7_SpineTocMetadata ==
    (pc = "with_exit" /\ output_format = EPUB /\ image_paths # << >>) =>
        /\ output_path \in DOMAIN fs
        /\ fs[output_path].kind = "epub"
        /\ LET book == fs[output_path].book
               pages == SpinePages(book)
               imgs == SelectSeq(book.items, LAMBDA x : x.kind = "image")
           IN  /\ Len(pages) = Len(image_paths)
               /\ \A i \in 1..Len(pages) :
                     /\ Cardinality({ k \in 1..Len(imgs) :
                                        imgs[k].file_name = pages[i].img_src }) = 1
                     /\ \E k \in 1..Len(imgs) :
                           /\ imgs[k].file_name = pages[i].img_src
                           /\ imgs[k].content.src = image_paths[i]
                     /\ pages[i].title = << "Page ", i >>
               /\ \A i, j \in 1..Len(pages) :
                     i # j => pages[i].img_src # pages[j].img_src
               /\ book.toc = pages
               /\ book.title = title
               /\ book.authors = << author >>
               /\ book.language = "en"

C7_Witness ==
    /\ pc = "with_exit"
    /\ output_format = EPUB
    /\ Len(image_paths) = 2
    /\ image_paths[1] # image_paths[2]
    /\ fs[output_path].kind = "epub"
    /\ title = << "T" >>

\* C8: called with an empty list, either assembler prints "No images found."
\* and returns, and the output files are what they were.
C8_EmptyListWritesNothing ==
    [][ (pc \in { "L100", "L105" } /\ image_paths = << >>) =>
          /\ fs' = fs
          /\ console' = MSG_NO_IMAGES
          /\ exc' = "none"
          /\ pc' = "with_exit" ]_vars

C8_Witness ==
    /\ pc = "with_exit"
    /\ image_paths = << >>
    /\ console = MSG_NO_IMAGES
    /\ output_path \in DOMAIN fs
    /\ fs[output_path] = OLD

\* C10: when a file of the list cannot be decoded, images_to_pdf raises and
\* the output files are what they were before the call, wherever in the list
\* the file is.
C10_DecodeFailureLeavesOutputUntouched ==
    [][ (pc = "L100" /\ \E i \in 1..Len(image_paths) :
                            DataOf(tree, image_paths[i]) = "corrupt") =>
          /\ pc' = "crashed"
          /\ exc' = "UnidentifiedImageError"
          /\ fs' = fs ]_vars

\* A failure at the second file, after the first was decoded.
C10_Witness ==
    /\ pc = "crashed"
    /\ exc = "UnidentifiedImageError"
    /\ Len(image_paths) = 2
    /\ DataOf(tree, image_paths[1]) # "corrupt"
    /\ DataOf(tree, image_paths[2]) = "corrupt"
    /\ fs = [ p \in { output_path } |-> OLD ]

====
